---- MODULE Spec2Model ----
(***************************************************************************)
(* Model of the golf-handicap repository's Handicap Engine                 *)
(* (src/lib/handicap.ts), of the callers that hand it a rounds list, and   *)
(* of the server entry points that fill and read the store.                *)
(*                                                                         *)
(* Numbers.  A JavaScript number is modelled as an exact rational n/d      *)
(* (kind "fin", d > 0, lowest terms), +Infinity / -Infinity (kind "inf",   *)
(* n = 1 / -1) or NaN (kind "nan").  The arithmetic follows IEEE 754 for   *)
(* the special values; finite results are exact (binary rounding of        *)
(* doubles, and the sign of zero, are abstracted away).                    *)
(*                                                                         *)
(* Time.  An instant is a number of ticks since 1970-01-01T00:00Z, with    *)
(* TicksPerDay ticks in a day; tick 0 of a day is midnight UTC.  The local *)
(* time zone of Date's month arithmetic is taken to be UTC.                *)
(***************************************************************************)
EXTENDS Integers, Sequences, FiniteSets, TLC

VARIABLES
    rounds,   \* the caller's rounds list (Round[]), a sequence of Round records
    now,      \* the ambient clock: the instant `new Date()` returns
    engine,   \* the JavaScript engine's Array.prototype.sort implementation
    last,     \* the last engine call: operation, argument, locals, result
    db,       \* the store: the players and the rounds table, sequences of rows
    http,     \* the last call of a server entry point: operation, request, response
    ld,       \* the flag service's client: its initialisation, the flag served
    home,     \* the Home server component: its position and its locals
    form,     \* an AddRoundForm: its props, its state, its calls in flight
    homeClient \* HomeClient: its state besides rounds, its calls in flight

vars == <<rounds, now, engine, last, db, http, ld, home, form, homeClient>>

----------------------------------------------------------------------------
(* JavaScript numbers *)

Abs(x) == IF x < 0 THEN -x ELSE x

Sign(x) == IF x < 0 THEN -1 ELSE IF x > 0 THEN 1 ELSE 0

RECURSIVE GCD(_, _)
GCD(a, b) == IF b = 0 THEN a ELSE GCD(b, a % b)

\* The finite number n/d (d # 0), in lowest terms with a positive denominator.
Fin(n, d) ==
    LET g == GCD(Abs(n), Abs(d))
        s == IF d < 0 THEN -1 ELSE 1
    IN  [k |-> "fin", n |-> (s * n) \div g, d |-> (s * d) \div g]

Num(n) == Fin(n, 1)

NaN == [k |-> "nan", n |-> 0, d |-> 1]

Inf(s) == [k |-> "inf", n |-> s, d |-> 1]

IsFinite(x) == x.k = "fin"

\* a + b
NumAdd(a, b) ==
    IF a.k = "nan" \/ b.k = "nan" THEN NaN
    ELSE IF a.k = "inf" /\ b.k = "inf" THEN (IF a.n = b.n THEN a ELSE NaN)
    ELSE IF a.k = "inf" THEN a
    ELSE IF b.k = "inf" THEN b
    ELSE Fin(a.n * b.d + b.n * a.d, a.d * b.d)

\* -a
NumNeg(a) == IF a.k = "nan" THEN NaN ELSE [a EXCEPT !.n = -a.n]

\* a - b
NumSub(a, b) == NumAdd(a, NumNeg(b))

\* a * b
NumMul(a, b) ==
    IF a.k = "nan" \/ b.k = "nan" THEN NaN
    ELSE IF a.k = "inf" \/ b.k = "inf"
         THEN (IF a.n = 0 \/ b.n = 0 THEN NaN ELSE Inf(Sign(a.n) * Sign(b.n)))
    ELSE Fin(a.n * b.n, a.d * b.d)

\* a / b  (a finite non-zero number over 0 is an infinity, 0 / 0 is NaN)
NumDiv(a, b) ==
    IF a.k = "nan" \/ b.k = "nan" THEN NaN
    ELSE IF a.k = "inf" /\ b.k = "inf" THEN NaN
    ELSE IF a.k = "inf" THEN Inf(a.n * (IF b.n < 0 THEN -1 ELSE 1))
    ELSE IF b.k = "inf" THEN Num(0)
    ELSE IF b.n = 0 THEN (IF a.n = 0 THEN NaN ELSE Inf(Sign(a.n)))
    ELSE Fin(a.n * b.d, a.d * b.n)

\* Number.prototype.toFixed(1): the decimal string with one digit after the
\* point nearest to x, the larger one of two equally near; the string is the
\* record [s, neg, t] of its shape, its sign and its digits as a count of tenths.
ToFixed1(x) ==
    IF x.k = "nan" THEN [s |-> "NaN", neg |-> FALSE, t |-> 0]
    ELSE IF x.k = "inf" THEN [s |-> "Infinity", neg |-> x.n < 0, t |-> 0]
    ELSE LET ax == Abs(x.n)
         IN  [s |-> "dec", neg |-> x.n < 0, t |-> (20 * ax + x.d) \div (2 * x.d)]

\* Number.parseFloat of a string toFixed wrote.
ParseFloat(str) ==
    IF str.s = "NaN" THEN NaN
    ELSE IF str.s = "Infinity" THEN Inf(IF str.neg THEN -1 ELSE 1)
    ELSE Fin(IF str.neg THEN -str.t ELSE str.t, 10)

----------------------------------------------------------------------------
(* Array.prototype.sort with the comparator (a, b) => key(a) - key(b) *)

\* What sort makes of the comparator's value for keys a and b: the sign of
\* a - b, and +0 when a - b is NaN (ECMAScript SortCompare).
CompareFn(a, b) ==
    IF a.k = "nan" \/ b.k = "nan" THEN 0
    ELSE IF a.k = "inf" /\ b.k = "inf" THEN (IF a.n = b.n THEN 0 ELSE a.n)
    ELSE IF a.k = "inf" THEN a.n
    ELSE IF b.k = "inf" THEN -b.n
    ELSE Sign(a.n * b.d - b.n * a.d)

\* The array with elements f[1], ..., f[Len(f)], as a sequence.
Arr(f) == SubSeq(f, 1, Len(f))

Reverse(s) == Arr([i \in 1..Len(s) |-> s[Len(s) + 1 - i]])

\* s with the element at position from moved to position to (to <= from).
MoveTo(s, from, to) ==
    SubSeq(s, 1, to - 1) \o <<s[from]>> \o SubSeq(s, to, from - 1)
        \o SubSeq(s, from + 1, Len(s))

\* V8 (Node, Chrome), arrays shorter than 64: the initial run is found and,
\* when strictly descending, reversed ...
RECURSIVE V8RunEnd(_, _, _, _)
V8RunEnd(keys, a, desc, idx) ==
    IF idx = Len(a) THEN idx
    ELSE LET order == CompareFn(keys[a[idx + 1]], keys[a[idx]])
         IN  IF (desc /\ order >= 0) \/ (~desc /\ order < 0) THEN idx
             ELSE V8RunEnd(keys, a, desc, idx + 1)

\* ... and every later element is inserted at the place a binary search of
\* the sorted part gives it.
RECURSIVE V8Search(_, _, _, _, _)
V8Search(keys, a, pivot, left, right) ==
    IF left >= right THEN left
    ELSE LET mid == left + ((right - left) \div 2)
         IN  IF CompareFn(keys[pivot], keys[a[mid]]) < 0
             THEN V8Search(keys, a, pivot, left, mid)
             ELSE V8Search(keys, a, pivot, mid + 1, right)

RECURSIVE V8Insert(_, _, _)
V8Insert(keys, a, start) ==
    IF start > Len(a) THEN a
    ELSE V8Insert(keys, MoveTo(a, start, V8Search(keys, a, a[start], 1, start)),
                  start + 1)

V8Sort(keys) ==
    LET n == Len(keys)
        a == Arr([i \in 1..n |-> i])
    IN  IF n < 2 THEN a
        ELSE LET desc == CompareFn(keys[2], keys[1]) < 0
                 run  == V8RunEnd(keys, a, desc, 2)
                 a1   == IF desc
                         THEN Reverse(SubSeq(a, 1, run)) \o SubSeq(a, run + 1, n)
                         ELSE a
             IN  V8Insert(keys, a1, run + 1)

\* A merge sort (the other engines): the halves are sorted and merged, the
\* right element taken first only when it compares below the left one.
RECURSIVE Merge(_, _, _)
Merge(keys, l, r) ==
    IF l = <<>> THEN r
    ELSE IF r = <<>> THEN l
    ELSE IF CompareFn(keys[r[1]], keys[l[1]]) < 0
         THEN <<r[1]>> \o Merge(keys, l, Tail(r))
         ELSE <<l[1]>> \o Merge(keys, Tail(l), r)

RECURSIVE MergeSortIdx(_, _)
MergeSortIdx(keys, a) ==
    IF Len(a) < 2 THEN a
    ELSE LET mid == Len(a) \div 2
         IN  Merge(keys, MergeSortIdx(keys, SubSeq(a, 1, mid)),
                         MergeSortIdx(keys, SubSeq(a, mid + 1, Len(a))))

\* The sort implementations a build can run on.  With a consistent comparator
\* they agree (the sort is stable); with an inconsistent one (a NaN key) the
\* order is implementation-defined and they differ.
SortImpls == {"v8", "merge"}

\* The order sort leaves the elements in: position i of the result holds the
\* element that was at position SortOrder(keys, eng)[i].
SortOrder(keys, eng) ==
    IF eng = "v8" THEN V8Sort(keys)
    ELSE MergeSortIdx(keys, Arr([i \in 1..Len(keys) |-> i]))

\* [...xs].sort(comparator): a sorted copy of xs, keys[i] the key of xs[i].
SortedCopy(xs, keys, eng) ==
    LET ord == SortOrder(keys, eng)
    IN  Arr([i \in 1..Len(xs) |-> xs[ord[i]]])

----------------------------------------------------------------------------
(* Date: calendar arithmetic (ECMAScript MakeDay, YearFromTime, ...) *)

\* Ticks in a day; the clock's resolution.
TicksPerDay == 2

\* The years the clock and the rounds' dates lie in.
Years == 2023..2025

IsLeap(y) == (y % 4 = 0 /\ y % 100 # 0) \/ y % 400 = 0

\* The number of the first day of year y, 1970-01-01 being day 0.
DayFromYear(y) ==
    365 * (y - 1970) + ((y - 1969) \div 4) - ((y - 1901) \div 100)
        + ((y - 1601) \div 400)

DaysInMonth(y, m) ==
    IF m = 1 THEN (IF IsLeap(y) THEN 29 ELSE 28)
    ELSE IF m \in {3, 5, 8, 10} THEN 30 ELSE 31

\* The days of year y before its month m (0 = January).
RECURSIVE MonthStart(_, _)
MonthStart(y, m) ==
    IF m = 0 THEN 0 ELSE MonthStart(y, m - 1) + DaysInMonth(y, m - 1)

\* MakeDay(year, month, date): month is brought into 0..11 by carrying into
\* the year; date is not checked against the month's length, so a date past
\* the month's end runs on into the next month.
MakeDay(year, month, date) ==
    LET ym == year + (month \div 12)
        mn == month % 12
    IN  DayFromYear(ym) + MonthStart(ym, mn) + date - 1

YearFromDay(day) ==
    CHOOSE y \in Years : DayFromYear(y) <= day /\ day < DayFromYear(y + 1)

\* getMonth(), 0..11
MonthFromDay(day) ==
    LET y == YearFromDay(day)
        inYear == day - DayFromYear(y)
    IN  CHOOSE m \in 0..11 :
            MonthStart(y, m) <= inYear /\ inYear < MonthStart(y, m) + DaysInMonth(y, m)

\* getDate(), 1..31
DateFromDay(day) ==
    LET y == YearFromDay(day)
    IN  day - DayFromYear(y) - MonthStart(y, MonthFromDay(day)) + 1

\* new Date("YYYY-MM-DD").getTime(): a date-only string is midnight UTC of
\* that day.  A round's date string is the record [y, m, d], m = 1..12.
DateTime(date) == MakeDay(date.y, date.m - 1, date.d) * TicksPerDay

\* d.setMonth(d.getMonth() - 6): the month field goes back by 6, the year,
\* the day of the month and the time of day are kept.
SetMonthBack6(t) ==
    LET day == t \div TicksPerDay
    IN  MakeDay(YearFromDay(day), MonthFromDay(day) - 6, DateFromDay(day))
            * TicksPerDay + (t % TicksPerDay)

----------------------------------------------------------------------------
(* src/lib/handicap.ts *)

\* calculateDifferential returning the value rounded to one decimal.
calculateDifferential_Rounded(round) ==
    ParseFloat(ToFixed1(NumDiv(NumMul(NumSub(Num(round.score), round.rating), Num(113)),
                               Num(round.slope))))

\* calculateDifferential(round)
calculateDifferential(round) ==
    NumDiv(NumMul(NumSub(Num(round.score), round.rating), Num(113)),
           Num(round.slope))

\* calculateHandicap, step 1: rounds.map((r) => ((r.score - r.rating) * 113) / r.slope)
Diffs(rs) ==
    Arr([i \in 1..Len(rs) |->
            NumDiv(NumMul(NumSub(Num(rs[i].score), rs[i].rating), Num(113)),
                   Num(rs[i].slope))])

\* NumToUse with the minimum of 3 rounds taken for 2.
NumToUse_MinTwo(totalRounds) ==
    IF totalRounds >= 20 THEN 8
    ELSE IF totalRounds = 19 THEN 7
    ELSE IF totalRounds = 18 THEN 6
    ELSE IF totalRounds >= 15 THEN 5
    ELSE IF totalRounds >= 12 THEN 4
    ELSE IF totalRounds >= 9 THEN 3
    ELSE IF totalRounds >= 6 THEN 2
    ELSE IF totalRounds >= 2 THEN 1
    ELSE 0

\* NumToUse with the branches for 19 and 18 rounds left out.
NumToUse_NoSteps(totalRounds) ==
    IF totalRounds >= 20 THEN 8
    ELSE IF totalRounds >= 15 THEN 5
    ELSE IF totalRounds >= 12 THEN 4
    ELSE IF totalRounds >= 9 THEN 3
    ELSE IF totalRounds >= 6 THEN 2
    ELSE IF totalRounds >= 3 THEN 1
    ELSE 0

\* calculateHandicap, step 2: the if-chain that sets numToUse; 0 stands for
\* its last branch, which returns 0 from calculateHandicap.
NumToUse(totalRounds) ==
    IF totalRounds >= 20 THEN 8
    ELSE IF totalRounds = 19 THEN 7
    ELSE IF totalRounds = 18 THEN 6
    ELSE IF totalRounds >= 15 THEN 5
    ELSE IF totalRounds >= 12 THEN 4
    ELSE IF totalRounds >= 9 THEN 3
    ELSE IF totalRounds >= 6 THEN 2
    ELSE IF totalRounds >= 3 THEN 1
    ELSE 0

\* BestDiffs without the sort: the first numToUse differentials as given.
BestDiffs_Unsorted(diffs, numToUse, eng) == SubSeq(diffs, 1, numToUse)

\* calculateHandicap, step 3: [...diffs].sort((a, b) => a - b).slice(0, numToUse)
BestDiffs(diffs, numToUse, eng) ==
    SubSeq(SortedCopy(diffs, diffs, eng), 1, numToUse)

\* bestDiffs.reduce((a, b) => a + b, 0)
RECURSIVE Reduce(_, _)
Reduce(xs, acc) ==
    IF xs = <<>> THEN acc ELSE Reduce(Tail(xs), NumAdd(acc, xs[1]))

\* IndexOf without the 96% multiplier.
IndexOf_NoMultiplier(bestDiffs) ==
    ParseFloat(ToFixed1(NumDiv(Reduce(bestDiffs, Num(0)), Num(Len(bestDiffs)))))

\* calculateHandicap, steps 4 to 6
IndexOf(bestDiffs) ==
    LET avgDiff == NumDiv(Reduce(bestDiffs, Num(0)), Num(Len(bestDiffs)))
        handicapIndex == NumMul(avgDiff, Fin(96, 100))
    IN  ParseFloat(ToFixed1(handicapIndex))

\* calculateHandicap(rounds) on an engine eng
calculateHandicap(rs, eng) ==
    IF Len(rs) = 0 THEN Num(0)
    ELSE LET diffs == Diffs(rs)
             numToUse == NumToUse(Len(diffs))
         IN  IF numToUse = 0 THEN Num(0)
             ELSE IndexOf(BestDiffs(diffs, numToUse, eng))

\* The number of differentials a call of calculateHandicap averages
\* (bestDiffs.length); 0 when it returns before averaging.
NumAveraged(rs, eng) ==
    IF Len(rs) = 0 \/ NumToUse(Len(rs)) = 0 THEN 0
    ELSE Len(BestDiffs(Diffs(rs), NumToUse(Len(rs)), eng))

\* The inline calculateHandicap of the page component app/page.tsx: the mean
\* of all the differentials, to one decimal.
calculateHandicap_page(rs) ==
    IF Len(rs) = 0 THEN Num(0)
    ELSE LET diffs == Diffs(rs)
             avgDiff == NumDiv(Reduce(diffs, Num(0)), Num(Len(diffs)))
         IN  ParseFloat(ToFixed1(avgDiff))

\* The inline calculateHandicap of the page component of part_009: the same
\* steps as the library's.
calculateHandicap_part009(rs, eng) ==
    IF Len(rs) = 0 THEN Num(0)
    ELSE LET diffs == Diffs(rs)
             totalRounds == Len(diffs)
             numToUse == NumToUse(totalRounds)
         IN  IF numToUse = 0 THEN Num(0)
             ELSE LET sortedDiffs == SortedCopy(diffs, diffs, eng)
                      bestDiffs == SubSeq(sortedDiffs, 1, numToUse)
                      avgDiff == NumDiv(Reduce(bestDiffs, Num(0)), Num(Len(bestDiffs)))
                      handicapIndex == NumMul(avgDiff, Fin(96, 100))
                  IN  ParseFloat(ToFixed1(handicapIndex))

\* SortedRounds without the sort.
SortedRounds_Unsorted(rs, eng) == rs

\* calculateHandicapHistory, step 1: [...rounds].sort by new Date(date).getTime()
SortedRounds(rs, eng) ==
    SortedCopy(rs, Arr([i \in 1..Len(rs) |-> Num(DateTime(rs[i].date))]), eng)

\* HistoryLoop with the handicap taken over the rounds of the last 6 months
\* only.
RECURSIVE HistoryLoop_RecentOnly(_, _, _, _)
HistoryLoop_RecentOnly(sortedRounds, index, sixMonthsAgo, eng) ==
    IF index > Len(sortedRounds) THEN <<>>
    ELSE LET round == sortedRounds[index]
             roundsUpToThis == SubSeq(sortedRounds, 1, index)
             roundDate == DateTime(round.date)
             recent == SelectSeq(roundsUpToThis,
                                 LAMBDA r : DateTime(r.date) >= sixMonthsAgo)
             point == [date |-> round.date,
                       handicap |-> calculateHandicap(recent, eng),
                       rounds |-> Len(roundsUpToThis)]
         IN  (IF roundDate >= sixMonthsAgo /\ Len(roundsUpToThis) >= 3
              THEN <<point>> ELSE <<>>)
             \o HistoryLoop_RecentOnly(sortedRounds, index + 1, sixMonthsAgo, eng)

\* HistoryLoop with the cutoff instant itself left out (> for >=).
RECURSIVE HistoryLoop_After(_, _, _, _)
HistoryLoop_After(sortedRounds, index, sixMonthsAgo, eng) ==
    IF index > Len(sortedRounds) THEN <<>>
    ELSE LET round == sortedRounds[index]
             roundsUpToThis == SubSeq(sortedRounds, 1, index)
             roundDate == DateTime(round.date)
             point == [date |-> round.date,
                       handicap |-> calculateHandicap(roundsUpToThis, eng),
                       rounds |-> Len(roundsUpToThis)]
         IN  (IF roundDate > sixMonthsAgo /\ Len(roundsUpToThis) >= 3
              THEN <<point>> ELSE <<>>)
             \o HistoryLoop_After(sortedRounds, index + 1, sixMonthsAgo, eng)

\* calculateHandicapHistory, step 3: the forEach over sortedRounds from
\* position index on (1-based: roundsUpToThis is the first index rounds).
RECURSIVE HistoryLoop(_, _, _, _)
HistoryLoop(sortedRounds, index, sixMonthsAgo, eng) ==
    IF index > Len(sortedRounds) THEN <<>>
    ELSE LET round == sortedRounds[index]
             roundsUpToThis == SubSeq(sortedRounds, 1, index)
             roundDate == DateTime(round.date)
             point == [date |-> round.date,
                       handicap |-> calculateHandicap(roundsUpToThis, eng),
                       rounds |-> Len(roundsUpToThis)]
         IN  (IF roundDate >= sixMonthsAgo /\ Len(roundsUpToThis) >= 3
              THEN <<point>> ELSE <<>>)
             \o HistoryLoop(sortedRounds, index + 1, sixMonthsAgo, eng)

\* calculateHandicapHistory(rounds) called at instant t on an engine eng
calculateHandicapHistory(rs, t, eng) ==
    IF Len(rs) < 3 THEN <<>>
    ELSE HistoryLoop(SortedRounds(rs, eng), 1, SetMonthBack6(t), eng)

\* HandicapChart drawing a chart whatever its data
HandicapChart_AlwaysChart(data) == [data |-> data, shows |-> "LineChart"]

\* HandicapChart({ data }): the empty state's message if data is empty, the
\* line chart of data if not
HandicapChart(data) ==
    [data |-> data,
     shows |-> IF Len(data) = 0
               THEN "Need at least 3 rounds to display handicap trend"
               ELSE "LineChart"]

\* The caller's list had calculateHandicapHistory sorted rounds itself.
RoundsAfterHistory_InPlace(rs, eng) == SortedRounds(rs, eng)

\* The caller's list after calculateHandicapHistory: the sort is of the copy
\* [...rounds], so the list is as it was.
RoundsAfterHistory(rs, eng) == rs

----------------------------------------------------------------------------
(* Inputs *)

\* A Round: date "YYYY-MM-DD" as [y, m, d]; score and slope integers; rating
\* a number with one decimal.  (id, player_id, course and tee are not read by
\* the engine.)
Rnd(date, score, rating10, slope) ==
    [date |-> date, score |-> score, rating |-> Fin(rating10, 10), slope |-> slope]

DOld == [y |-> 2024, m |-> 1, d |-> 15]
DCut == [y |-> 2024, m |-> 3, d |-> 1]
DNew == [y |-> 2024, m |-> 8, d |-> 1]

\* The clock starts at 2024-08-30T00:00Z, six calendar months after
\* "February 30", which MakeDay takes for 2024-03-01.
NowStart == MakeDay(2024, 7, 30) * TicksPerDay

\* Bounds: ticks the clock advances, and the longest list of each family.
MaxClock == 1
MaxDated == 4
MaxCore == 6
MaxShort == 3
MaxLong == 21

\* Rounds before, on the day of and after the six-month cutoff:
\* differentials 10, 15 and 15.
DatedRounds ==
    {Rnd(DOld, 82, 720, 113), Rnd(DCut, 87, 720, 113), Rnd(DNew, 87, 720, 113)}

\* Two recent rounds, differentials 10 and 15.
CoreRounds == {Rnd(DNew, 82, 720, 113), Rnd(DNew, 87, 720, 113)}

\* Recent rounds with differentials 10 and -2 and, with slope 0, NaN (0 / 0)
\* and -Infinity.
ShortRounds ==
    {Rnd(DNew, 82, 720, 113), Rnd(DNew, 70, 720, 113), Rnd(DNew, 72, 720, 0),
     Rnd(DNew, 70, 720, 0)}

\* The documented examples: differentials [15.0, 10.0, 20.0]; scores
\* [90, 88, 85, 92, 80] at rating 72.0 and slope 120; score 85 at rating 72.5
\* and slope 130.
Example1 == <<Rnd(DNew, 87, 720, 113), Rnd(DNew, 82, 720, 113), Rnd(DNew, 92, 720, 113)>>
Example2 == Arr([i \in 1..5 |-> Rnd(DNew, <<90, 88, 85, 92, 80>>[i], 720, 120)])
Example3 == <<Rnd(DNew, 85, 725, 130)>>

ListsUpTo(S, n) == UNION {[1..k -> S] : k \in 0..n}

\* Long lists: recent rounds of differential 15, the first or the last of them
\* replaced by an old round of differential 10, or none.
LongBase == Rnd(DNew, 87, 720, 113)
LongAlt == Rnd(DOld, 82, 720, 113)
LongLists ==
    UNION {{Arr([i \in 1..n |-> IF i = p THEN LongAlt ELSE LongBase]) : p \in {0, 1, n}} :
              n \in 0..MaxLong}

\* The short lists the engine is called with.
InputLists ==
    ListsUpTo(DatedRounds, MaxDated) \cup ListsUpTo(CoreRounds, MaxCore)
        \cup ListsUpTo(ShortRounds, MaxShort)
        \cup {Example1, Example2, Example3}

----------------------------------------------------------------------------
(* JavaScript strings and request values *)

\* A string is the sequence of its characters.  A value of a request field is
\* undefined (or null: a field that is not there), a string or a number.
Undefined == [t |-> "undefined", s |-> <<>>, v |-> Num(0)]
Str(chars) == [t |-> "string", s |-> chars, v |-> Num(0)]
JNum(x) == [t |-> "number", s |-> <<>>, v |-> x]

\* !x is false: a string that is not empty, a number other than 0 and NaN
Truthy(x) ==
    CASE x.t = "undefined" -> FALSE
      [] x.t = "string" -> x.s # <<>>
      [] x.t = "number" -> x.v.k = "inf" \/ (x.v.k = "fin" /\ x.v.n # 0)

Digits == <<"0", "1", "2", "3", "4", "5", "6", "7", "8", "9">>
IsDigit(c) == \E k \in 1..10 : Digits[k] = c
DigitVal(c) == (CHOOSE k \in 1..10 : Digits[k] = c) - 1
WhiteSpace == {" "}

\* The decimal digits of a natural number
RECURSIVE NatChars(_)
NatChars(n) ==
    IF n < 10 THEN <<Digits[n + 1]>> ELSE NatChars(n \div 10) \o <<Digits[(n % 10) + 1]>>

\* Number::toString, for NaN, the infinities and the numbers with at most one
\* decimal digit
NumToChars(x) ==
    IF x.k = "nan" THEN <<"N", "a", "N">>
    ELSE LET sign == IF x.n < 0 THEN <<"-">> ELSE <<>>
         IN  IF x.k = "inf" THEN sign \o <<"I", "n", "f", "i", "n", "i", "t", "y">>
             ELSE LET tenths == (10 * Abs(x.n)) \div x.d
                  IN  sign \o NatChars(tenths \div 10)
                          \o (IF tenths % 10 = 0 THEN <<>>
                              ELSE <<".", Digits[(tenths % 10) + 1]>>)

\* ToString of a request value, as parseInt and parseFloat apply it
ToChars(x) ==
    CASE x.t = "undefined" -> <<"u", "n", "d", "e", "f", "i", "n", "e", "d">>
      [] x.t = "string" -> x.s
      [] x.t = "number" -> NumToChars(x.v)

RECURSIVE StripLeft(_)
StripLeft(chars) ==
    IF chars # <<>> /\ chars[1] \in WhiteSpace THEN StripLeft(Tail(chars)) ELSE chars

\* String.prototype.trim
Trim(chars) == Reverse(StripLeft(Reverse(StripLeft(chars))))

\* The number of decimal digits chars starts with
RECURSIVE DigitRun(_)
DigitRun(chars) ==
    IF chars # <<>> /\ IsDigit(chars[1]) THEN 1 + DigitRun(Tail(chars)) ELSE 0

\* The value of a sequence of decimal digits, from acc on
RECURSIVE DigitsValue(_, _)
DigitsValue(chars, acc) ==
    IF chars = <<>> THEN acc ELSE DigitsValue(Tail(chars), 10 * acc + DigitVal(chars[1]))

RECURSIVE Pow10(_)
Pow10(k) == IF k = 0 THEN 1 ELSE 10 * Pow10(k - 1)

\* Number.parseInt(x) (radix 10): white space, a sign, then the longest run of
\* digits; NaN when there is no digit.  What follows the digits is ignored.
ParseInt(x) ==
    LET str == StripLeft(ToChars(x))
        signed == str # <<>> /\ str[1] \in {"+", "-"}
        sign == IF signed /\ str[1] = "-" THEN -1 ELSE 1
        body == IF signed THEN Tail(str) ELSE str
        k == DigitRun(body)
    IN  IF k = 0 THEN NaN ELSE Num(sign * DigitsValue(SubSeq(body, 1, k), 0))

\* Number.parseFloat(x): white space, a sign, digits, and a point with digits;
\* NaN when there is no digit.  (Exponents and "Infinity" are not modelled.)
ParseFloatOf(x) ==
    LET str == StripLeft(ToChars(x))
        signed == str # <<>> /\ str[1] \in {"+", "-"}
        sign == IF signed /\ str[1] = "-" THEN -1 ELSE 1
        body == IF signed THEN Tail(str) ELSE str
        k == DigitRun(body)
        rest == SubSeq(body, k + 1, Len(body))
        f == IF rest # <<>> /\ rest[1] = "." THEN DigitRun(Tail(rest)) ELSE 0
        whole == DigitsValue(SubSeq(body, 1, k), 0)
        frac == DigitsValue(SubSeq(rest, 2, f + 1), 0)
    IN  IF k = 0 /\ f = 0 THEN NaN
        ELSE Fin(sign * (whole * Pow10(f) + frac), Pow10(f))

\* isNaN
IsNaN(x) == x.k = "nan"

\* The date a string "YYYY-MM-DD" names
ParseDate(chars) ==
    [y |-> DigitsValue(SubSeq(chars, 1, 4), 0),
     m |-> DigitsValue(SubSeq(chars, 6, 7), 0),
     d |-> DigitsValue(SubSeq(chars, 9, 10), 0)]

----------------------------------------------------------------------------
(* The server: the store (Supabase tables) and the entry points *)

\* What an entry point answers: the HTTP status (0 for a server action, which
\* answers an object), success (of a server action; res.ok of a route), the
\* error message, the data, and the number of store calls it made.
NoData == <<>>
StoreError == "store error"
Response(status, success, error, data, queries) ==
    [status |-> status, success |-> success, error |-> error, data |-> data,
     queries |-> queries]

\* supabase.from(table).insert([row]).select(): the row with its generated id
Inserted(table, row) == [id |-> Len(table) + 1] @@ row

\* addRound without the check of the numbers.
addRound_NoNumberCheck(formData, table, storeOk) ==
    IF ~Truthy(formData.player_id)
    THEN [resp |-> Response(0, FALSE, "Player ID is required", NoData, 0), table |-> table]
    ELSE IF \/ ~Truthy(formData.date) \/ ~Truthy(formData.course)
            \/ ~Truthy(formData.tee) \/ ~Truthy(formData.rating)
            \/ ~Truthy(formData.slope) \/ ~Truthy(formData.score)
    THEN [resp |-> Response(0, FALSE, "All fields are required", NoData, 0), table |-> table]
    ELSE LET row == Inserted(table,
                        [player_id |-> formData.player_id.s,
                         date |-> formData.date.s,
                         course |-> Trim(formData.course.s),
                         tee |-> Trim(formData.tee.s),
                         rating |-> ParseFloatOf(formData.rating),
                         slope |-> ParseInt(formData.slope),
                         score |-> ParseInt(formData.score)])
         IN  IF ~storeOk
             THEN [resp |-> Response(0, FALSE, StoreError, NoData, 1), table |-> table]
             ELSE [resp |-> Response(0, TRUE, "", row, 1), table |-> Append(table, row)]

\* addRound rejecting a slope of 0.
addRound_SlopeChecked(formData, table, storeOk) ==
    IF ~Truthy(formData.player_id)
    THEN [resp |-> Response(0, FALSE, "Player ID is required", NoData, 0), table |-> table]
    ELSE IF \/ ~Truthy(formData.date) \/ ~Truthy(formData.course)
            \/ ~Truthy(formData.tee) \/ ~Truthy(formData.rating)
            \/ ~Truthy(formData.slope) \/ ~Truthy(formData.score)
    THEN [resp |-> Response(0, FALSE, "All fields are required", NoData, 0), table |-> table]
    ELSE LET ratingNum == ParseFloatOf(formData.rating)
             slopeNum == ParseInt(formData.slope)
             scoreNum == ParseInt(formData.score)
         IN  IF IsNaN(ratingNum) \/ IsNaN(slopeNum) \/ IsNaN(scoreNum) \/ slopeNum = Num(0)
             THEN [resp |-> Response(0, FALSE, "Invalid numeric values", NoData, 0),
                   table |-> table]
             ELSE LET row == Inserted(table,
                                 [player_id |-> formData.player_id.s,
                                  date |-> formData.date.s,
                                  course |-> Trim(formData.course.s),
                                  tee |-> Trim(formData.tee.s),
                                  rating |-> ratingNum,
                                  slope |-> slopeNum,
                                  score |-> scoreNum])
                  IN  IF ~storeOk
                      THEN [resp |-> Response(0, FALSE, StoreError, NoData, 1),
                            table |-> table]
                      ELSE [resp |-> Response(0, TRUE, "", row, 1),
                            table |-> Append(table, row)]

\* The server action addRound(formData) on the rounds table; storeOk: the
\* store accepts the insert.
addRound(formData, table, storeOk) ==
    IF ~Truthy(formData.player_id)
    THEN [resp |-> Response(0, FALSE, "Player ID is required", NoData, 0), table |-> table]
    ELSE IF \/ ~Truthy(formData.date) \/ ~Truthy(formData.course)
            \/ ~Truthy(formData.tee) \/ ~Truthy(formData.rating)
            \/ ~Truthy(formData.slope) \/ ~Truthy(formData.score)
    THEN [resp |-> Response(0, FALSE, "All fields are required", NoData, 0), table |-> table]
    ELSE LET ratingNum == ParseFloatOf(formData.rating)
             slopeNum == ParseInt(formData.slope)
             scoreNum == ParseInt(formData.score)
         IN  IF IsNaN(ratingNum) \/ IsNaN(slopeNum) \/ IsNaN(scoreNum)
             THEN [resp |-> Response(0, FALSE, "Invalid numeric values", NoData, 0),
                   table |-> table]
             ELSE LET row == Inserted(table,
                                 [player_id |-> formData.player_id.s,
                                  date |-> formData.date.s,
                                  course |-> Trim(formData.course.s),
                                  tee |-> Trim(formData.tee.s),
                                  rating |-> ratingNum,
                                  slope |-> slopeNum,
                                  score |-> scoreNum])
                  IN  IF ~storeOk
                      THEN [resp |-> Response(0, FALSE, StoreError, NoData, 1),
                            table |-> table]
                      ELSE [resp |-> Response(0, TRUE, "", row, 1),
                            table |-> Append(table, row)]

\* POST /api/rounds (app/api/rounds/route.ts) with the JSON body `body`
POST_rounds(body, table, storeOk) ==
    IF ~Truthy(body.player_id)
    THEN [resp |-> Response(400, FALSE, "Player ID required", NoData, 0), table |-> table]
    ELSE IF \/ ~Truthy(body.date) \/ ~Truthy(body.course)
            \/ ~Truthy(body.tee) \/ ~Truthy(body.rating)
            \/ ~Truthy(body.slope) \/ ~Truthy(body.score)
    THEN [resp |-> Response(400, FALSE, "All round fields are required", NoData, 0),
          table |-> table]
    ELSE LET ratingNum == ParseFloatOf(body.rating)
             slopeNum == ParseInt(body.slope)
             scoreNum == ParseInt(body.score)
         IN  IF IsNaN(ratingNum) \/ IsNaN(slopeNum) \/ IsNaN(scoreNum)
             THEN [resp |-> Response(400, FALSE, "Invalid numeric values", NoData, 0),
                   table |-> table]
             ELSE LET row == Inserted(table,
                                 [player_id |-> body.player_id.s,
                                  date |-> body.date.s,
                                  course |-> body.course.s,
                                  tee |-> body.tee.s,
                                  rating |-> ratingNum,
                                  slope |-> slopeNum,
                                  score |-> scoreNum])
                  IN  IF ~storeOk
                      THEN [resp |-> Response(500, FALSE, StoreError, NoData, 1),
                            table |-> table]
                      ELSE [resp |-> Response(200, TRUE, "", row, 1),
                            table |-> Append(table, row)]

\* The rows of table in the order order, a permutation of the positions
Ordered(table, order) == Arr([i \in 1..Len(table) |-> table[order[i]]])

\* .order("date", { ascending: false }): the orders in which no row comes
\* before a row of a later date; rows of one date come in any order
DateDescending(table) ==
    LET key == Arr([i \in 1..Len(table) |-> DateTime(ParseDate(table[i].date))])
    IN  {order \in Permutations(1..Len(table)) :
            \A i \in 1..(Len(table) - 1) : key[order[i]] >= key[order[i + 1]]}

\* .eq("player_id", player_id)
EqPlayer(table, player_id) == SelectSeq(table, LAMBDA r : r.player_id = player_id.s)

\* GET /api/rounds (app/api/rounds/route.ts, and the same in part_003);
\* player_id is searchParams.get("player_id"), order one of DateDescending of
\* the rows found
GET_rounds(player_id, table, storeOk, order) ==
    IF ~Truthy(player_id) THEN Response(200, TRUE, "", <<>>, 0)
    ELSE IF ~storeOk THEN Response(500, FALSE, StoreError, NoData, 1)
    ELSE Response(200, TRUE, "", Ordered(EqPlayer(table, player_id), order), 1)

\* GET of app/api/rounds.ts: the query is filtered only if there is a
\* player_id, and it is not ordered: order is any order of the rows found
GET_rounds_api(playerId, table, storeOk, order) ==
    LET query == IF Truthy(playerId) THEN EqPlayer(table, playerId) ELSE table
    IN  IF ~storeOk THEN Response(500, FALSE, StoreError, NoData, 1)
        ELSE Response(200, TRUE, "", Ordered(query, order), 1)

\* The server action addPlayer(formData) on the players table
addPlayer(formData, table, storeOk) ==
    IF ~Truthy(formData.name) \/ Trim(formData.name.s) = <<>>
    THEN [resp |-> Response(0, FALSE, "Name is required", NoData, 0), table |-> table]
    ELSE LET favorite_course ==
                 IF formData.favorite_course.t = "string"
                        /\ Trim(formData.favorite_course.s) # <<>>
                 THEN Str(Trim(formData.favorite_course.s)) ELSE Undefined
             row == Inserted(table, [name |-> Trim(formData.name.s),
                                     favorite_course |-> favorite_course])
         IN  IF ~storeOk
             THEN [resp |-> Response(0, FALSE, StoreError, NoData, 1), table |-> table]
             ELSE [resp |-> Response(0, TRUE, "", row, 1), table |-> Append(table, row)]

\* POST /api/players (app/api/players/route.ts) with the JSON body `body`
POST_players(body, table, storeOk) ==
    IF ~Truthy(body.name)
    THEN [resp |-> Response(400, FALSE, "Name is required", NoData, 0), table |-> table]
    ELSE LET row == Inserted(table, [name |-> body.name.s,
                                     favorite_course |-> body.favorite_course])
         IN  IF ~storeOk
             THEN [resp |-> Response(500, FALSE, StoreError, NoData, 1), table |-> table]
             ELSE [resp |-> Response(200, TRUE, "", row, 1), table |-> Append(table, row)]

\* A Round of a response as the engine reads it: date, score, rating, slope
AsRound(row) ==
    [date |-> ParseDate(row.date), score |-> row.score.n, rating |-> row.rating,
     slope |-> row.slope.n]

\* HomeClient's effect on selectedPlayerId: setRounds(Array.isArray(data) ?
\* data : []) of the response of GET /api/rounds?player_id=...
FetchedRounds(resp) ==
    IF resp.status = 200 THEN Arr([i \in 1..Len(resp.data) |-> AsRound(resp.data[i])])
    ELSE <<>>

\* The text order of .order("name", { ascending: true }), over the characters
\* the names of the players here are made of
Collation == <<" ", "A", "B", "a", "l", "o">>
CharRank(c) == CHOOSE i \in 1..Len(Collation) : Collation[i] = c

RECURSIVE CharsLeq(_, _)
CharsLeq(a, b) ==
    IF a = <<>> THEN TRUE
    ELSE IF b = <<>> THEN FALSE
    ELSE IF Head(a) = Head(b) THEN CharsLeq(Tail(a), Tail(b))
    ELSE CharRank(Head(a)) < CharRank(Head(b))

NameAscending(table) ==
    {order \in Permutations(1..Len(table)) :
        \A i \in 1..(Len(table) - 1) :
            CharsLeq(table[order[i]].name, table[order[i + 1]].name)}

\* The server function getPlayers(): every player by name, [] on a store error
getPlayers(table, storeOk, order) ==
    IF ~storeOk THEN <<>> ELSE Ordered(table, order)

\* The server function getRounds(playerId): the player's rounds, latest date
\* first; [] without a playerId and on a store error
getRounds(playerId, table, storeOk, order) ==
    IF ~Truthy(playerId) THEN <<>>
    ELSE IF ~storeOk THEN <<>>
    ELSE Ordered(EqPlayer(table, playerId), order)

\* getFlag not waiting for the client
WaitOver_NoWait(client) == TRUE

\* await client.waitForInitialization() of getFlag is over: the client of the
\* flag service has initialised
WaitOver(client) == client.state = "initialized"

\* client.variation(flagKey, user, false): what the service serves for the
\* flag once the client has initialised, the default false before that
variation(client) == IF client.state = "initialized" THEN client.flag ELSE FALSE

\* isDraft && (await getFlag("new-checkout")): getFlag is called only if isDraft
CallsGetFlag(isDraft) == isDraft

----------------------------------------------------------------------------
(* The state machine: a caller holds a rounds list and calls the engine *)

NoString == [s |-> "", neg |-> FALSE, t |-> 0]

\* last: the operation called, the instant it read from the clock (0: none),
\* its result, the number of differentials it averaged, the strings it showed.
NoCall == [op |-> "none", at |-> 0, ret |-> Num(0), numToUse |-> 0, shown |-> NoString]

\* The store before anything is added, and no entry point called yet.
EmptyDb == [players |-> <<>>, rounds |-> <<>>]
NoRequest == [op |-> "none", req |-> <<>>, resp |-> Response(0, FALSE, "", NoData, 0)]

\* The flag service's client as LaunchDarkly.init leaves it: initialising.
NoClient == [state |-> "initializing", flag |-> FALSE]

\* Home before a request renders it.
NoHome ==
    [pc |-> "idle", isDraft |-> FALSE, players |-> <<>>, initialPlayerId |-> Undefined,
     initialRounds |-> <<>>, newCheckoutEnabled |-> FALSE, consulted |-> FALSE]

\* The fields of AddRoundForm as useState starts them
EmptyFormData ==
    [date |-> <<>>, course |-> <<>>, tee |-> <<>>, rating |-> <<>>, slope |-> <<>>,
     score |-> <<>>]

\* An AddRoundForm as it mounts with no player selected: collapsed, empty, not
\* loading; no call of onAddRound made.  inFlight: the calls of this form that
\* have not settled; orphans: the unsettled calls of forms unmounted since;
\* submits: the submit events handled; calls: the calls of onAddRound made;
\* sent: the argument of the last one;
\* outcome: how the last call to settle settled.
NoPayload == [player_id |-> <<>>, date |-> <<>>, course |-> <<>>, tee |-> <<>>,
              rating |-> NaN, slope |-> NaN, score |-> NaN]
NoForm ==
    [mounted |-> TRUE, playerId |-> Undefined, isExpanded |-> FALSE,
     formData |-> EmptyFormData, loading |-> FALSE, inFlight |-> 0, orphans |-> 0,
     submits |-> 0, calls |-> 0, sent |-> NoPayload, outcome |-> "none"]

\* HomeClient as it mounts with no player.  pending: the results of the
\* addPlayer calls that handleAddPlayer still awaits; fetches: the players
\* whose rounds a fetch of the effect is under way for; returned: what
\* handleAddPlayer returned last.
NoHomeClient ==
    [players |-> <<>>, selectedPlayerId |-> Undefined, viewingProfile |-> FALSE,
     pending |-> <<>>, fetches |-> {}, returned |-> Response(0, FALSE, "", NoData, 0)]

Init ==
    /\ rounds \in InputLists
    /\ now = NowStart
    /\ engine \in SortImpls
    /\ last = NoCall
    /\ db = EmptyDb
    /\ http = NoRequest
    /\ ld = NoClient
    /\ home = NoHome
    /\ form = NoForm
    /\ homeClient = NoHomeClient

\* Profile: calculateHandicap(rounds)
CallHandicap ==
    /\ last' = [op |-> "calculateHandicap", at |-> 0,
                ret |-> calculateHandicap(rounds, engine),
                numToUse |-> NumAveraged(rounds, engine), shown |-> NoString]
    /\ UNCHANGED <<rounds, now, engine, db, http, ld, home, form, homeClient>>

\* Profile: calculateHandicapHistory(rounds), which reads the clock
CallHistory ==
    /\ last' = [op |-> "calculateHandicapHistory", at |-> now,
                ret |-> calculateHandicapHistory(rounds, now, engine),
                numToUse |-> 0, shown |-> NoString]
    /\ rounds' = RoundsAfterHistory(rounds, engine)
    /\ UNCHANGED <<now, engine, db, http, ld, home, form, homeClient>>

\* RoundTable (showDifferential, no maxRows): every row computes
\* diff = calculateDifferential(r) and shows diff.toFixed(1)
RenderRoundTable ==
    /\ last' = [op |-> "RoundTable", at |-> 0,
                ret |-> Arr([i \in 1..Len(rounds) |->
                               calculateDifferential(rounds[i])]),
                numToUse |-> 0,
                shown |-> Arr([i \in 1..Len(rounds) |->
                                 ToFixed1(calculateDifferential(rounds[i]))])]
    /\ UNCHANGED <<rounds, now, engine, db, http, ld, home, form, homeClient>>

\* Home of app/page.tsx: handicap = calculateHandicap(rounds), the inline copy
RenderPage ==
    /\ last' = [op |-> "page.calculateHandicap", at |-> 0,
                ret |-> calculateHandicap_page(rounds),
                numToUse |-> 0, shown |-> NoString]
    /\ UNCHANGED <<rounds, now, engine, db, http, ld, home, form, homeClient>>

\* The page of part_009: handicap = calculateHandicap(rounds), the inline copy
RenderPart009 ==
    /\ last' = [op |-> "part_009.calculateHandicap", at |-> 0,
                ret |-> calculateHandicap_part009(rounds, engine),
                numToUse |-> 0, shown |-> NoString]
    /\ UNCHANGED <<rounds, now, engine, db, http, ld, home, form, homeClient>>

\* Profile's trend chart: <HandicapChart data={handicapHistory} />, with
\* handicapHistory = calculateHandicapHistory(rounds)
RenderHandicapChart ==
    /\ last' = [op |-> "HandicapChart", at |-> now,
                ret |-> HandicapChart(calculateHandicapHistory(rounds, now, engine)),
                numToUse |-> 0, shown |-> NoString]
    /\ rounds' = RoundsAfterHistory(rounds, engine)
    /\ UNCHANGED <<now, engine, db, http, ld, home, form, homeClient>>

\* Time passes.
Tick ==
    /\ now < NowStart + MaxClock
    /\ now' = now + 1
    /\ UNCHANGED <<rounds, engine, last, db, http, ld, home, form, homeClient>>

Next ==
    \/ CallHandicap
    \/ CallHistory
    \/ RenderRoundTable
    \/ RenderPage
    \/ RenderPart009
    \/ RenderHandicapChart
    \/ Tick

Spec == Init /\ [][Next]_vars

\* The same caller with a long rounds list.
InitLong ==
    /\ rounds \in LongLists
    /\ now = NowStart
    /\ engine \in SortImpls
    /\ last = NoCall
    /\ db = EmptyDb
    /\ http = NoRequest
    /\ ld = NoClient
    /\ home = NoHome
    /\ form = NoForm
    /\ homeClient = NoHomeClient

SpecLong == InitLong /\ [][Next]_vars

----------------------------------------------------------------------------
(* The rounds of the store: clients add rounds and read them *)

Chars2024_08_01 == <<"2", "0", "2", "4", "-", "0", "8", "-", "0", "1">>
Chars2024_01_15 == <<"2", "0", "2", "4", "-", "0", "1", "-", "1", "5">>

\* Bound: the rows the rounds table comes to hold.
MaxRows == 3

\* A well-formed request to add a round
BaseRound ==
    [player_id |-> Str(<<"p", "1">>), date |-> Str(Chars2024_08_01),
     course |-> Str(<<"A">>), tee |-> Str(<<"B">>),
     rating |-> Str(<<"7", "2", ".", "5">>), slope |-> Str(<<"1", "1", "3">>),
     score |-> Str(<<"8", "5">>)]

\* Another player's round, with a slope outside 55..155 and a negative score
OtherRound ==
    [player_id |-> Str(<<"p", "2">>), date |-> Str(Chars2024_01_15),
     course |-> Str(<<"A">>), tee |-> Str(<<"B">>),
     rating |-> Str(<<"7", "0">>), slope |-> Str(<<"2", "0", "0">>),
     score |-> Str(<<"-", "3">>)]

\* The values a client puts in the place of one field of BaseRound: none, an
\* empty or blank string, text that is no number, a zero, a JSON number.
FieldValues ==
    [player_id |-> {Undefined},
     date |-> {Undefined},
     course |-> {Undefined},
     tee |-> {Str(<<>>)},
     rating |-> {Str(<<"x">>)},
     slope |-> {Str(<<" ">>), JNum(Num(0))},
     score |-> {Str(<<"a", "b", "c">>)}]

\* BaseRound as a page sends it: the numbers parsed, JSON numbers
NumberRound ==
    [BaseRound EXCEPT !.rating = JNum(Fin(725, 10)), !.slope = JNum(Num(113)),
                      !.score = JNum(Num(85))]

\* A round below the rating on a slope of 0
ZeroSlopeRound ==
    [BaseRound EXCEPT !.slope = Str(<<"0">>), !.score = Str(<<"7", "0">>)]

RoundRequests ==
    {BaseRound, OtherRound, NumberRound, ZeroSlopeRound} \cup
    UNION {{[BaseRound EXCEPT ![f] = v] : v \in FieldValues[f]} : f \in DOMAIN FieldValues}

\* A FormData holds strings only.
RoundFormData ==
    {r \in RoundRequests : \A f \in DOMAIN r : r[f].t # "number"}

\* The player_id of a query: none, or a player's.
PlayerQueries == {Undefined, Str(<<"p", "1">>), Str(<<"p", "2">>)}

\* The rounds table holds two rounds of player p1, the older one added last.
SeedRounds ==
    <<[id |-> 1, player_id |-> <<"p", "1">>, date |-> Chars2024_08_01,
       course |-> <<"A">>, tee |-> <<"B">>, rating |-> Num(72), slope |-> Num(113),
       score |-> Num(87)],
      [id |-> 2, player_id |-> <<"p", "1">>, date |-> Chars2024_01_15,
       course |-> <<"A">>, tee |-> <<"B">>, rating |-> Num(72), slope |-> Num(113),
       score |-> Num(82)]>>

InitRounds ==
    /\ rounds = <<>>
    /\ now = NowStart
    /\ engine = "v8"
    /\ last = NoCall
    /\ db = [players |-> <<>>, rounds |-> SeedRounds]
    /\ http = NoRequest
    /\ ld = NoClient
    /\ home = NoHome
    /\ form = NoForm
    /\ homeClient = NoHomeClient

\* A client calls the server action addRound(formData)
CallAddRound(formData, storeOk) ==
    LET result == addRound(formData, db.rounds, storeOk)
    IN  /\ Len(result.table) <= MaxRows
        /\ db' = [db EXCEPT !.rounds = result.table]
        /\ http' = [op |-> "addRound", req |-> formData, resp |-> result.resp]
        /\ UNCHANGED <<rounds, now, engine, last, ld, home, form, homeClient>>

\* A client sends POST /api/rounds
PostRounds(body, storeOk) ==
    LET result == POST_rounds(body, db.rounds, storeOk)
    IN  /\ Len(result.table) <= MaxRows
        /\ db' = [db EXCEPT !.rounds = result.table]
        /\ http' = [op |-> "POST /api/rounds", req |-> body, resp |-> result.resp]
        /\ UNCHANGED <<rounds, now, engine, last, ld, home, form, homeClient>>

\* A client sends GET /api/rounds, served by app/api/rounds/route.ts
GetRounds(player_id, storeOk) ==
    /\ \E order \in DateDescending(EqPlayer(db.rounds, player_id)) :
          http' = [op |-> "GET /api/rounds", req |-> player_id,
                   resp |-> GET_rounds(player_id, db.rounds, storeOk, order)]
    /\ UNCHANGED <<rounds, now, engine, last, db, ld, home, form, homeClient>>

\* ... served by the handler of app/api/rounds.ts
GetRoundsApi(playerId, storeOk) ==
    /\ \E order \in Permutations(1..Len(IF Truthy(playerId)
                                        THEN EqPlayer(db.rounds, playerId)
                                        ELSE db.rounds)) :
          http' = [op |-> "GET /api/rounds (api/rounds.ts)", req |-> playerId,
                   resp |-> GET_rounds_api(playerId, db.rounds, storeOk, order)]
    /\ UNCHANGED <<rounds, now, engine, last, db, ld, home, form, homeClient>>

\* HomeClient's effect on selectedPlayerId: with no player setRounds([]),
\* else fetch /api/rounds?player_id=... and setRounds of the answer; the
\* Dashboard is rendered again with handicap = calculateHandicap(rounds)
FetchRounds(selectedPlayerId, storeOk) ==
    /\ IF ~Truthy(selectedPlayerId)
       THEN /\ rounds' = <<>>
            /\ UNCHANGED http
       ELSE \E order \in DateDescending(EqPlayer(db.rounds, selectedPlayerId)) :
               LET resp == GET_rounds(selectedPlayerId, db.rounds, storeOk, order)
               IN  /\ http' = [op |-> "fetchRounds", req |-> selectedPlayerId,
                               resp |-> resp]
                   /\ rounds' = FetchedRounds(resp)
    /\ last' = [op |-> "calculateHandicap", at |-> 0,
                ret |-> calculateHandicap(rounds', engine),
                numToUse |-> NumAveraged(rounds', engine), shown |-> NoString]
    /\ UNCHANGED <<now, engine, db, ld, home, form, homeClient>>

NextRounds ==
    \/ \E formData \in RoundFormData, storeOk \in BOOLEAN : CallAddRound(formData, storeOk)
    \/ \E body \in RoundRequests, storeOk \in BOOLEAN : PostRounds(body, storeOk)
    \/ \E player_id \in PlayerQueries, storeOk \in BOOLEAN : GetRounds(player_id, storeOk)
    \/ \E playerId \in PlayerQueries, storeOk \in BOOLEAN : GetRoundsApi(playerId, storeOk)
    \/ \E selectedPlayerId \in PlayerQueries, storeOk \in BOOLEAN :
          FetchRounds(selectedPlayerId, storeOk)

SpecRounds == InitRounds /\ [][NextRounds]_vars

----------------------------------------------------------------------------
(* The players of the store: clients add players *)

\* Bound: the rows the players table comes to hold.
MaxPlayers == 2

\* The names and favorite courses a client submits: none, empty, blank, a
\* name, a name with blanks around it.
PlayerNames ==
    {Undefined, Str(<<>>), Str(<<" ">>), Str(<<"A", "l">>), Str(<<" ", "A", "l", " ">>)}
FavoriteCourses == {Undefined, Str(<<" ", "X">>)}
PlayerRequests == [name : PlayerNames, favorite_course : FavoriteCourses]

InitPlayers ==
    /\ rounds = <<>>
    /\ now = NowStart
    /\ engine = "v8"
    /\ last = NoCall
    /\ db = EmptyDb
    /\ http = NoRequest
    /\ ld = NoClient
    /\ home = NoHome
    /\ form = NoForm
    /\ homeClient = NoHomeClient

\* A client calls the server action addPlayer(formData)
CallAddPlayer(formData, storeOk) ==
    LET result == addPlayer(formData, db.players, storeOk)
    IN  /\ Len(result.table) <= MaxPlayers
        /\ db' = [db EXCEPT !.players = result.table]
        /\ http' = [op |-> "addPlayer", req |-> formData, resp |-> result.resp]
        /\ UNCHANGED <<rounds, now, engine, last, ld, home, form, homeClient>>

\* A client sends POST /api/players
PostPlayers(body, storeOk) ==
    LET result == POST_players(body, db.players, storeOk)
    IN  /\ Len(result.table) <= MaxPlayers
        /\ db' = [db EXCEPT !.players = result.table]
        /\ http' = [op |-> "POST /api/players", req |-> body, resp |-> result.resp]
        /\ UNCHANGED <<rounds, now, engine, last, ld, home, form, homeClient>>

NextPlayers ==
    \/ \E formData \in PlayerRequests, storeOk \in BOOLEAN : CallAddPlayer(formData, storeOk)
    \/ \E body \in PlayerRequests, storeOk \in BOOLEAN : PostPlayers(body, storeOk)

SpecPlayers == InitPlayers /\ [][NextPlayers]_vars

----------------------------------------------------------------------------
(* The Home page: a request renders it, step by step through its awaits *)

\* The store a request finds: two players, Al with the two seed rounds
SeedPlayers ==
    <<[id |-> <<"p", "2">>, name |-> <<"B", "o">>, favorite_course |-> Undefined],
      [id |-> <<"p", "1">>, name |-> <<"A", "l">>, favorite_course |-> Undefined]>>

InitHome ==
    /\ rounds = <<>>
    /\ now = NowStart
    /\ engine = "v8"
    /\ last = NoCall
    /\ db \in {EmptyDb, [players |-> SeedPlayers, rounds |-> SeedRounds]}
    /\ http = NoRequest
    /\ ld \in {[state |-> "initializing", flag |-> f] : f \in BOOLEAN}
    /\ home = NoHome
    /\ form = NoForm
    /\ homeClient = NoHomeClient

\* A request starts a render: const { isEnabled: isDraft } = await draftMode()
HomeDraftMode(isDraft) ==
    /\ home.pc \in {"idle", "rendered", "failed"}
    /\ home' = [NoHome EXCEPT !.pc = "getPlayers", !.isDraft = isDraft]
    /\ UNCHANGED <<rounds, now, engine, last, db, http, ld, form, homeClient>>

\* const players = await getPlayers(); initialPlayerId = players[0].id or null
HomeGetPlayers(storeOk) ==
    /\ home.pc = "getPlayers"
    /\ \E order \in NameAscending(db.players) :
        LET players == getPlayers(db.players, storeOk, order)
            initialPlayerId ==
                IF Len(players) > 0 THEN Str(players[1].id) ELSE Undefined
        IN  home' = [home EXCEPT !.players = players,
                                 !.initialPlayerId = initialPlayerId,
                                 !.pc = IF Truthy(initialPlayerId)
                                        THEN "getRounds" ELSE "getFlag"]
    /\ UNCHANGED <<rounds, now, engine, last, db, http, ld, form, homeClient>>

\* initialRounds = initialPlayerId ? await getRounds(initialPlayerId) : []
HomeGetRounds(storeOk) ==
    /\ home.pc = "getRounds"
    /\ \E order \in DateDescending(EqPlayer(db.rounds, home.initialPlayerId)) :
        home' = [home EXCEPT
                    !.initialRounds =
                        getRounds(home.initialPlayerId, db.rounds, storeOk, order),
                    !.pc = "getFlag"]
    /\ UNCHANGED <<rounds, now, engine, last, db, http, ld, form, homeClient>>

\* newCheckoutEnabled = isDraft && (await getFlag("new-checkout")): without
\* draft mode the page is rendered with false; with it getFlag is called and
\* waits for the client
HomeGate ==
    /\ home.pc = "getFlag"
    /\ home' = IF CallsGetFlag(home.isDraft)
               THEN [home EXCEPT !.consulted = TRUE, !.pc = "waitForInitialization"]
               ELSE [home EXCEPT !.newCheckoutEnabled = FALSE, !.pc = "rendered"]
    /\ UNCHANGED <<rounds, now, engine, last, db, http, ld, form, homeClient>>

\* getFlag returns client.variation(...) and Home renders HomeClient with it
HomeVariation ==
    /\ home.pc = "waitForInitialization"
    /\ WaitOver(ld)
    /\ home' = [home EXCEPT !.newCheckoutEnabled = home.isDraft /\ variation(ld),
                            !.pc = "rendered"]
    /\ UNCHANGED <<rounds, now, engine, last, db, http, ld, form, homeClient>>

\* waitForInitialization rejects: getFlag and Home throw, nothing is rendered
HomeRejected ==
    /\ home.pc = "waitForInitialization"
    /\ ld.state = "failed"
    /\ home' = [home EXCEPT !.pc = "failed"]
    /\ UNCHANGED <<rounds, now, engine, last, db, http, ld, form, homeClient>>

\* The client of the flag service finishes initialising, or fails to
ClientInitialized(ok) ==
    /\ ld.state = "initializing"
    /\ ld' = [ld EXCEPT !.state = IF ok THEN "initialized" ELSE "failed"]
    /\ UNCHANGED <<rounds, now, engine, last, db, http, home, form, homeClient>>

\* The flag is switched in the flag service
FlagSwitched ==
    /\ ld' = [ld EXCEPT !.flag = ~ld.flag]
    /\ UNCHANGED <<rounds, now, engine, last, db, http, home, form, homeClient>>

NextHome ==
    \/ \E isDraft \in BOOLEAN : HomeDraftMode(isDraft)
    \/ \E storeOk \in BOOLEAN : HomeGetPlayers(storeOk)
    \/ \E storeOk \in BOOLEAN : HomeGetRounds(storeOk)
    \/ HomeGate
    \/ HomeVariation
    \/ HomeRejected
    \/ \E ok \in BOOLEAN : ClientInitialized(ok)
    \/ FlagSwitched

SpecHome == InitHome /\ [][NextHome]_vars

----------------------------------------------------------------------------
(* An AddRoundForm on the dashboard: a user fills it in and submits it *)

\* Bound: the submit events the form's handler comes to handle.
MaxSubmits == 3

FormFields == {"date", "course", "tee", "rating", "slope", "score"}

\* What the user types into the fields
Entered ==
    [date |-> Chars2024_08_01, course |-> <<"A">>, tee |-> <<"B">>,
     rating |-> <<"7", "2", ".", "5">>, slope |-> <<"1", "1", "3">>,
     score |-> <<"8", "5">>]

\* Every input of the form is `required`: the browser submits no form with
\* an empty field
Required(f) == \A field \in FormFields : f.formData[field] # <<>>

\* The Save Round button with the loading state left out of `disabled`
SubmitDisabled_NoLoading(f) == ~Truthy(f.playerId)

\* disabled={loading || !playerId} of the Save Round button
SubmitDisabled(f) == f.loading \/ ~Truthy(f.playerId)

\* handleSubmit(e) as far as its await: nothing without a playerId, else
\* setLoading(true) and the call of onAddRound with the fields, the numbers
\* parsed
handleSubmit(f) ==
    IF ~Truthy(f.playerId) THEN [f EXCEPT !.submits = @ + 1]
    ELSE [f EXCEPT !.submits = @ + 1,
                   !.loading = TRUE,
                   !.inFlight = @ + 1,
                   !.calls = @ + 1,
                   !.sent = [player_id |-> f.playerId.s,
                             date |-> f.formData.date,
                             course |-> f.formData.course,
                             tee |-> f.formData.tee,
                             rating |-> ParseFloatOf(Str(f.formData.rating)),
                             slope |-> ParseInt(Str(f.formData.slope)),
                             score |-> ParseInt(Str(f.formData.score))]]

\* handleSubmit resetting the form whatever the result
handleSubmitResumed_AlwaysReset(f, success) ==
    [f EXCEPT !.formData = EmptyFormData, !.isExpanded = FALSE, !.loading = FALSE,
              !.inFlight = @ - 1,
              !.outcome = IF success THEN "success" ELSE "failure"]

\* handleSubmit from its await on, onAddRound having resolved with
\* { success }: on success the fields are emptied and the form collapses;
\* setLoading(false)
handleSubmitResumed(f, success) ==
    IF success
    THEN [f EXCEPT !.formData = EmptyFormData, !.isExpanded = FALSE,
                   !.loading = FALSE, !.inFlight = @ - 1, !.outcome = "success"]
    ELSE [f EXCEPT !.loading = FALSE, !.inFlight = @ - 1, !.outcome = "failure"]

InitForm ==
    /\ rounds = <<>>
    /\ now = NowStart
    /\ engine = "v8"
    /\ last = NoCall
    /\ db = EmptyDb
    /\ http = NoRequest
    /\ ld = NoClient
    /\ home = NoHome
    /\ form \in {[NoForm EXCEPT !.playerId = p] : p \in {Undefined, Str(<<"p", "1">>)}}
    /\ homeClient = NoHomeClient

\* The header button: onClick={() => setIsExpanded(!isExpanded)}
FormToggle ==
    /\ form.mounted
    /\ form' = [form EXCEPT !.isExpanded = ~form.isExpanded]
    /\ UNCHANGED <<rounds, now, engine, last, db, http, ld, home, homeClient>>

\* An input of the expanded form: onChange sets the field
FormChange(field, value) ==
    /\ form.mounted /\ form.isExpanded
    /\ form.formData[field] # value
    /\ form' = [form EXCEPT !.formData[field] = value]
    /\ UNCHANGED <<rounds, now, engine, last, db, http, ld, home, homeClient>>

\* The user submits the expanded form, by the Save Round button or by Enter
\* in a field: the button is not disabled, no required field is empty
FormSubmit ==
    /\ form.mounted /\ form.isExpanded
    /\ ~SubmitDisabled(form)
    /\ Required(form)
    /\ form.submits < MaxSubmits
    /\ form' = handleSubmit(form)
    /\ UNCHANGED <<rounds, now, engine, last, db, http, ld, home, homeClient>>

\* A script calls requestSubmit() on the form element: the fields are
\* validated, the button is not asked
FormRequestSubmit ==
    /\ form.mounted /\ form.isExpanded
    /\ Required(form)
    /\ form.submits < MaxSubmits
    /\ form' = handleSubmit(form)
    /\ UNCHANGED <<rounds, now, engine, last, db, http, ld, home, homeClient>>

\* onAddRound resolves and handleSubmit goes on
FormResolved(success) ==
    /\ form.mounted /\ form.inFlight > 0
    /\ form' = handleSubmitResumed(form, success)
    /\ UNCHANGED <<rounds, now, engine, last, db, http, ld, home, homeClient>>

\* onAddRound rejects (the server action or the fetch after it fails): the
\* rest of handleSubmit does not run
FormRejected ==
    /\ form.mounted /\ form.inFlight > 0
    /\ form' = [form EXCEPT !.inFlight = @ - 1, !.outcome = "rejected"]
    /\ UNCHANGED <<rounds, now, engine, last, db, http, ld, home, homeClient>>

\* The playerId prop changes: another player, or none, is selected
FormPlayer(playerId) ==
    /\ form.mounted
    /\ form.playerId # playerId
    /\ form' = [form EXCEPT !.playerId = playerId]
    /\ UNCHANGED <<rounds, now, engine, last, db, http, ld, home, homeClient>>

\* The user opens the selected player's profile: the dashboard and its form
\* unmount, the form's state is lost, its calls in flight go on
FormUnmount ==
    /\ form.mounted /\ Truthy(form.playerId)
    /\ form' = [form EXCEPT !.mounted = FALSE, !.isExpanded = FALSE,
                            !.formData = EmptyFormData, !.loading = FALSE,
                            !.inFlight = 0, !.orphans = @ + form.inFlight]
    /\ UNCHANGED <<rounds, now, engine, last, db, http, ld, home, homeClient>>

\* Back on the dashboard a new form mounts
FormMount ==
    /\ ~form.mounted
    /\ form' = [form EXCEPT !.mounted = TRUE]
    /\ UNCHANGED <<rounds, now, engine, last, db, http, ld, home, homeClient>>

\* A call of an unmounted form settles: its setState calls have no effect
FormOrphanSettled ==
    /\ form.orphans > 0
    /\ form' = [form EXCEPT !.orphans = @ - 1]
    /\ UNCHANGED <<rounds, now, engine, last, db, http, ld, home, homeClient>>

NextFormUser ==
    \/ FormToggle
    \/ \E field \in FormFields : \E value \in {<<>>, Entered[field]} :
           FormChange(field, value)
    \/ FormSubmit
    \/ \E success \in BOOLEAN : FormResolved(success)
    \/ FormRejected
    \/ \E playerId \in {Undefined, Str(<<"p", "1">>)} : FormPlayer(playerId)
    \/ FormUnmount
    \/ FormMount
    \/ FormOrphanSettled

SpecForm == InitForm /\ [][NextFormUser]_vars

NextFormEvents == NextFormUser \/ FormRequestSubmit

SpecFormEvents == InitForm /\ [][NextFormEvents]_vars

----------------------------------------------------------------------------
(* HomeClient: players are added and selected, the rounds follow *)

\* Bound: the addPlayer calls handleAddPlayer awaits at a time.
MaxPending == 2

\* What a user enters into the add-player form
PlayerEntries ==
    {[name |-> <<>>, favorite_course |-> <<>>],
     [name |-> <<" ", "B", "o", " ">>, favorite_course |-> <<" ", "X">>]}

\* A player's id as the string the client holds
IdOf(player) == Str(NatChars(player.id))

\* The store the page was rendered from: player 1 with the two seed rounds
ClientPlayers == <<[id |-> 1, name |-> <<"A", "l">>, favorite_course |-> Undefined]>>
ClientRounds ==
    Arr([i \in 1..Len(SeedRounds) |-> [SeedRounds[i] EXCEPT !.player_id = <<"1">>]])

\* handleAddPlayer(player) as far as its await: the FormData it gives to the
\* server action addPlayer
PlayerFormData(player) ==
    [name |-> Str(player.name), favorite_course |-> Str(player.favorite_course)]

\* handleAddPlayer selecting the player of a result whether it succeeded or not
handleAddPlayerResumed_NoSuccessCheck(c, result) ==
    IF result.data # NoData
    THEN [c EXCEPT !.players = Append(@, result.data),
                   !.selectedPlayerId = IdOf(result.data),
                   !.returned = result]
    ELSE [c EXCEPT !.selectedPlayerId = Undefined, !.returned = result]

\* handleAddPlayer from its await on: with a successful result that has data,
\* setPlayers((prev) => [...prev, result.data]), setSelectedPlayerId(
\* result.data.id); return result
handleAddPlayerResumed(c, result) ==
    IF result.success /\ result.data # NoData
    THEN [c EXCEPT !.players = Append(@, result.data),
                   !.selectedPlayerId = IdOf(result.data),
                   !.returned = result]
    ELSE [c EXCEPT !.returned = result]

\* The effect on [selectedPlayerId], run when it has changed from `before`:
\* a fetch of the player's rounds starts (with no player, setRounds([]))
EffectFetches(c, before) ==
    IF c.selectedPlayerId # before /\ Truthy(c.selectedPlayerId)
    THEN [c EXCEPT !.fetches = @ \cup {c.selectedPlayerId}]
    ELSE c
EffectRounds(c, before, rs) ==
    IF c.selectedPlayerId # before /\ ~Truthy(c.selectedPlayerId) THEN <<>> ELSE rs

\* The sequence without its i-th element
Without(seq, i) == SubSeq(seq, 1, i - 1) \o SubSeq(seq, i + 1, Len(seq))

\* HomeClient mounts with Home's props: the players, the first of them
\* selected, that player's rounds
InitClient ==
    /\ now = NowStart
    /\ engine = "v8"
    /\ last = NoCall
    /\ http = NoRequest
    /\ ld = NoClient
    /\ home = NoHome
    /\ form = NoForm
    /\ \/ /\ db = EmptyDb
          /\ rounds = <<>>
          /\ homeClient = NoHomeClient
       \/ /\ db = [players |-> ClientPlayers, rounds |-> ClientRounds]
          /\ rounds = FetchedRounds(Response(200, TRUE, "", ClientRounds, 1))
          /\ homeClient = [NoHomeClient EXCEPT !.players = ClientPlayers,
                                               !.selectedPlayerId = IdOf(ClientPlayers[1])]

\* handleAddPlayer is called with the form's player and the server runs the
\* action addPlayer
ClientAddPlayer(player, storeOk) ==
    LET formData == PlayerFormData(player)
        result == addPlayer(formData, db.players, storeOk)
    IN  /\ Len(homeClient.pending) < MaxPending
        /\ Len(result.table) <= MaxPlayers
        /\ db' = [db EXCEPT !.players = result.table]
        /\ http' = [op |-> "addPlayer", req |-> formData, resp |-> result.resp]
        /\ homeClient' = [homeClient EXCEPT !.pending = Append(@, result.resp)]
        /\ UNCHANGED <<rounds, now, engine, last, ld, home, form>>

\* The i-th call awaited resolves and handleAddPlayer goes on; the effect
\* runs if the selected player has changed
ClientAddPlayerResumed(i) ==
    /\ i \in 1..Len(homeClient.pending)
    /\ LET c == handleAddPlayerResumed(
                    [homeClient EXCEPT !.pending = Without(@, i)],
                    homeClient.pending[i])
       IN  /\ homeClient' = EffectFetches(c, homeClient.selectedPlayerId)
           /\ rounds' = EffectRounds(c, homeClient.selectedPlayerId, rounds)
    /\ UNCHANGED <<now, engine, last, db, http, ld, home, form>>

\* The user selects another player of the list (onPlayerChange)
ClientPlayerChange(i) ==
    /\ i \in 1..Len(homeClient.players)
    /\ IdOf(homeClient.players[i]) # homeClient.selectedPlayerId
    /\ homeClient' = EffectFetches(
                         [homeClient EXCEPT !.selectedPlayerId = IdOf(homeClient.players[i])],
                         homeClient.selectedPlayerId)
    /\ UNCHANGED <<rounds, now, engine, last, db, http, ld, home, form>>

\* A fetch of the effect is answered by GET /api/rounds: setRounds of the
\* answer, [] if it is no array
ClientFetchSettled(playerId, storeOk) ==
    /\ playerId \in homeClient.fetches
    /\ \E order \in DateDescending(EqPlayer(db.rounds, playerId)) :
           LET resp == GET_rounds(playerId, db.rounds, storeOk, order)
           IN  /\ http' = [op |-> "fetchRounds", req |-> playerId, resp |-> resp]
               /\ rounds' = FetchedRounds(resp)
    /\ homeClient' = [homeClient EXCEPT !.fetches = @ \ {playerId}]
    /\ UNCHANGED <<now, engine, last, db, ld, home, form>>

NextClient ==
    \/ \E player \in PlayerEntries, storeOk \in BOOLEAN : ClientAddPlayer(player, storeOk)
    \/ \E i \in 1..MaxPending : ClientAddPlayerResumed(i)
    \/ \E i \in 1..MaxPlayers : ClientPlayerChange(i)
    \/ \E id \in 1..MaxPlayers, storeOk \in BOOLEAN :
           ClientFetchSettled(Str(NatChars(id)), storeOk)

SpecClient == InitClient /\ [][NextClient]_vars

----------------------------------------------------------------------------
(* What the claims speak of, stated apart from the code's own steps *)

\* x < y, x <= y for finite numbers
Less(x, y) == x.n * y.d < y.n * x.d
Leq(x, y) == x.n * y.d <= y.n * x.d

\* 10 * x is an integer
OneDecimal(x) == x.k = "fin" /\ (10 * x.n) % x.d = 0

\* r is x rounded to one decimal place: no tenth is nearer to x than r
RoundedToTenth(r, x) ==
    /\ OneDecimal(r)
    /\ x.k = "fin"
    /\ 20 * Abs(r.n * x.d - x.n * r.d) <= r.d * x.d

\* (score - rating) * 113 / slope as a fraction, for a slope other than 0
Formula(r) ==
    Fin((r.score * r.rating.d - r.rating.n) * 113, r.rating.d * r.slope)

AllSlopesNonZero(rs) == \A i \in 1..Len(rs) : rs[i].slope # 0

\* No differential of rs is NaN: no round has slope 0 and score = rating.
NoNaNDifferential(rs) ==
    \A i \in 1..Len(rs) : ~(rs[i].slope = 0 /\ Num(rs[i].score) = rs[i].rating)

\* The sum of the k smallest of the finite numbers ds: with v the k-th
\* smallest, the numbers below v and as many copies of v as make k.
RECURSIVE SumBelow(_, _, _)
SumBelow(ds, v, i) ==
    IF i = 0 THEN Num(0)
    ELSE NumAdd(SumBelow(ds, v, i - 1), IF Less(ds[i], v) THEN ds[i] ELSE Num(0))

SumOfSmallest(ds, k) ==
    LET I == 1..Len(ds)
        below(v) == Cardinality({j \in I : Less(ds[j], v)})
        upTo(v) == Cardinality({j \in I : Leq(ds[j], v)})
        kth == ds[CHOOSE i \in I : below(ds[i]) < k /\ k <= upTo(ds[i])]
    IN  NumAdd(SumBelow(ds, kth, Len(ds)), NumMul(Num(k - below(kth)), kth))

\* The number of differentials the step table gives for n rounds, n >= 3.
StepTable(n) ==
    CASE n \in 3..5 -> 1
      [] n \in 6..8 -> 2
      [] n \in 9..11 -> 3
      [] n \in 12..14 -> 4
      [] n \in 15..17 -> 5
      [] n = 18 -> 6
      [] n = 19 -> 7
      [] n >= 20 -> 8

\* The day number of a round's date.
DayOf(date) == MakeDay(date.y, date.m - 1, date.d)

\* The rounds by date ascending, rounds of one date in the order of rs.
StableByDate(rs) ==
    LET I == 1..Len(rs)
        day == Arr([j \in I |-> DayOf(rs[j].date)])
        place == Arr([k \in I |->
                        1 + Cardinality({j \in I : \/ day[j] < day[k]
                                                   \/ day[j] = day[k] /\ j < k})])
    IN  Arr([p \in I |-> rs[CHOOSE k \in I : place[k] = p]])

\* rs with the rounds at positions i and j exchanged
Swap(rs, i, j) ==
    Arr([p \in 1..Len(rs) |-> IF p = i THEN rs[j] ELSE IF p = j THEN rs[i] ELSE rs[p]])

\* The calendar day of the cutoff of a call made at instant t.
CutoffDay(t) == SetMonthBack6(t) \div TicksPerDay

OnHandicap == last.op = "calculateHandicap"
OnHistory == last.op = "calculateHandicapHistory"
OnTable == last.op = "RoundTable"

\* calculateHandicapHistory's result has a point for sorted position i
Emitted(i) == \E p \in 1..Len(last.ret) : last.ret[p].rounds = i

----------------------------------------------------------------------------
(* The claims *)

\* C1: for every rounds list of length 0, 1 or 2, whatever its rounds are,
\* calculateHandicap returns exactly 0 and calculateHandicapHistory returns
\* an empty sequence.
C1_FewRounds ==
    Len(rounds) < 3 =>
        /\ OnHandicap => last.ret = Num(0)
        /\ OnHistory => last.ret = <<>>

\* C1, reached: calculateHandicap has run on two rounds, one with slope 0.
C1_Witness ==
    /\ OnHandicap
    /\ Len(rounds) = 2
    /\ \E i \in 1..2 : rounds[i].slope = 0

\* C2: the number of differentials calculateHandicap averages depends on the
\* number of rounds only and is the step table's: 3-5 -> 1, 6-8 -> 2,
\* 9-11 -> 3, 12-14 -> 4, 15-17 -> 5, 18 -> 6, 19 -> 7, 20 or more -> 8.
C2_StepTable ==
    (OnHandicap /\ Len(rounds) >= 3) => last.numToUse = StepTable(Len(rounds))

\* C2, reached: calculateHandicap has averaged 8 differentials of 20 rounds.
C2_Witness == OnHandicap /\ Len(rounds) = 20 /\ last.numToUse = 8

\* C3 as claimed: for every list of at least 3 rounds calculateHandicap
\* returns 0.96 times the mean of the numToUse smallest differentials,
\* rounded to one decimal place (10 times the result is an integer).
C3_Original ==
    (OnHandicap /\ Len(rounds) >= 3) =>
        /\ OneDecimal(last.ret)
        /\ AllSlopesNonZero(rounds) =>
              LET k == StepTable(Len(rounds))
                  ds == Arr([i \in 1..Len(rounds) |-> Formula(rounds[i])])
                  mean == NumDiv(SumOfSmallest(ds, k), Num(k))
              IN  RoundedToTenth(last.ret, NumMul(mean, Fin(96, 100)))

\* C3, amended: for every list of at least 3 rounds, all of a slope other
\* than 0, calculateHandicap returns 0.96 times the mean of the numToUse
\* smallest differentials, rounded to one decimal place; differentials
\* [15.0, 10.0, 20.0] give 9.6 and scores [90, 88, 85, 92, 80] at rating 72.0
\* and slope 120 give 7.2.  A result that is not a finite number (Infinity,
\* -Infinity, NaN) comes of a round of slope 0 only.
C3_Amended ==
    (OnHandicap /\ Len(rounds) >= 3) =>
        /\ AllSlopesNonZero(rounds) =>
              LET k == StepTable(Len(rounds))
                  ds == Arr([i \in 1..Len(rounds) |-> Formula(rounds[i])])
                  mean == NumDiv(SumOfSmallest(ds, k), Num(k))
              IN  RoundedToTenth(last.ret, NumMul(mean, Fin(96, 100)))
        /\ ~AllSlopesNonZero(rounds) => (OneDecimal(last.ret) \/ ~IsFinite(last.ret))
        /\ rounds = Example1 => last.ret = Fin(96, 10)
        /\ rounds = Example2 => last.ret = Fin(72, 10)

\* C3, reached: calculateHandicap has averaged two different differentials,
\* 10 and 15 of 6 rounds, to 12.0.
C3_Witness ==
    /\ OnHandicap
    /\ Len(rounds) = 6
    /\ AllSlopesNonZero(rounds)
    /\ last.numToUse = 2
    /\ last.ret = Num(12)

SortedDay(i) ==
    LET I == 1..Len(rounds)
        day == Arr([j \in I |-> DayOf(rounds[j].date)])
        below(v) == Cardinality({j \in I : day[j] < v})
        upTo(v) == Cardinality({j \in I : day[j] <= v})
    IN  day[CHOOSE j \in I : below(day[j]) < i /\ i <= upTo(day[j])]

\* C5 as claimed: calculateHandicapHistory emits a point for sorted position
\* i (counted from 1 here) exactly when the round's date is on or after the
\* cutoff day, the current date minus 6 calendar months, and i >= 3.
C5_Original ==
    OnHistory =>
        \A i \in 1..Len(rounds) :
            Emitted(i) <=> (SortedDay(i) >= CutoffDay(last.at) /\ i >= 3)

\* C5, amended: calculateHandicapHistory emits a point for sorted position i
\* exactly when i >= 3 and the round's date, taken at 00:00 UTC, is not
\* before the cutoff instant, the instant of the call minus 6 calendar
\* months with its time of day kept: the date is after the cutoff's day, or
\* on it and the call is made at 00:00 UTC exactly.
C5_Amended ==
    OnHistory =>
        \A i \in 1..Len(rounds) :
            Emitted(i) <=>
                /\ i >= 3
                /\ \/ SortedDay(i) > CutoffDay(last.at)
                   \/ SortedDay(i) = CutoffDay(last.at) /\ last.at % TicksPerDay = 0

\* C5, reached: a call made after midnight has passed over a round dated on
\* the cutoff's day at a position from 3 on, and has emitted a later round.
C5_Witness ==
    /\ OnHistory
    /\ last.at % TicksPerDay # 0
    /\ \E i \in 3..Len(rounds) : SortedDay(i) = CutoffDay(last.at) /\ ~Emitted(i)
    /\ \E i \in 3..Len(rounds) : Emitted(i)

\* C6: every point calculateHandicapHistory emits for sorted position i has
\* that round's date, rounds = i, and handicap = calculateHandicap of the
\* first i rounds of the date-sorted list, rounds before the cutoff included.
C6_Points ==
    (OnHistory /\ last.ret # <<>>) =>
        LET sorted == StableByDate(rounds)
        IN  \A p \in 1..Len(last.ret) :
                LET i == last.ret[p].rounds
                IN  /\ i \in 1..Len(rounds)
                    /\ last.ret[p].date = sorted[i].date
                    /\ last.ret[p].handicap =
                           calculateHandicap(SubSeq(sorted, 1, i), engine)

\* C6, reached: a point's handicap 9.6 rests on a differential 10 that only
\* rounds dated before the cutoff have.
C6_Witness ==
    /\ OnHistory
    /\ Len(last.ret) >= 1
    /\ last.ret[1].handicap = Fin(96, 10)
    /\ \A j \in 1..Len(rounds) :
          rounds[j].score = 82 => DateTime(rounds[j].date) < SetMonthBack6(last.at)

\* C7: in calculateHandicapHistory's result the round-count increases with
\* the index, the date never decreases, and every round-count lies between 3
\* and the number of rounds.
C7_Ordered ==
    OnHistory =>
        /\ \A p \in 1..Len(last.ret) :
              3 <= last.ret[p].rounds /\ last.ret[p].rounds <= Len(rounds)
        /\ \A p, q \in 1..Len(last.ret) :
              p < q => /\ last.ret[p].rounds < last.ret[q].rounds
                       /\ DayOf(last.ret[p].date) <= DayOf(last.ret[q].date)

\* C7, reached: two points of different dates, from a list given newest
\* round first.
C7_Witness ==
    /\ OnHistory
    /\ Len(last.ret) >= 2
    /\ DayOf(last.ret[1].date) < DayOf(last.ret[Len(last.ret)].date)
    /\ DayOf(rounds[1].date) > DayOf(rounds[Len(rounds)].date)

C9_SameResult ==
    [][(last.op = last'.op /\ (OnHandicap \/ OnHistory) /\ rounds' = rounds)
          => last'.ret = last.ret]_vars

\* C10 as claimed: for every rounds list and every permutation of it
\* calculateHandicap returns the same index.
C10_Original ==
    OnHandicap =>
        \A i, j \in 1..Len(rounds) :
            i < j => calculateHandicap(Swap(rounds, i, j), engine) = last.ret

\* C10, amended: for every rounds list without a NaN differential (no round
\* with slope 0 and score equal to rating) and every permutation of it
\* calculateHandicap returns the same index.
C10_Amended ==
    (OnHandicap /\ NoNaNDifferential(rounds)) =>
        \A i, j \in 1..Len(rounds) :
            i < j => calculateHandicap(Swap(rounds, i, j), engine) = last.ret

\* C10, reached: calculateHandicap has run on at least 3 rounds whose first
\* differential is above the last one, one of them -Infinity.
C10_Witness ==
    /\ OnHandicap
    /\ Len(rounds) >= 3
    /\ NoNaNDifferential(rounds)
    /\ CompareFn(Diffs(rounds)[1], Diffs(rounds)[Len(rounds)]) > 0
    /\ \E i \in 1..Len(rounds) : ~IsFinite(Diffs(rounds)[i])

\* The rounds have pairwise different dates.
DistinctDates(rs) ==
    \A i, j \in 1..Len(rs) : i # j => DayOf(rs[i].date) # DayOf(rs[j].date)

\* C11 as claimed: for every rounds list, also one where two rounds share a
\* date, every permutation of the list gives calculateHandicapHistory the
\* same sequence of points.
C11_Original ==
    OnHistory =>
        \A i, j \in 1..Len(rounds) :
            i < j => calculateHandicapHistory(Swap(rounds, i, j), last.at, engine)
                         = last.ret

\* C11, amended: for every rounds list whose rounds have pairwise different
\* dates, every permutation of the list gives calculateHandicapHistory the
\* same sequence of points; rounds of one date keep the order of the input.
C11_Amended ==
    (OnHistory /\ DistinctDates(rounds)) =>
        \A i, j \in 1..Len(rounds) :
            i < j => calculateHandicapHistory(Swap(rounds, i, j), last.at, engine)
                         = last.ret

\* C11, reached: calculateHandicapHistory has emitted a point for three
\* rounds of different dates given newest first.
C11_Witness ==
    /\ OnHistory
    /\ Len(rounds) >= 3
    /\ DistinctDates(rounds)
    /\ DayOf(rounds[1].date) > DayOf(rounds[Len(rounds)].date)
    /\ Len(last.ret) >= 1

OnPage == last.op = "page.calculateHandicap"
OnPart009 == last.op = "part_009.calculateHandicap"

\* C12 as claimed: every inline calculateHandicap of a page component returns
\* what lib/handicap.ts calculateHandicap returns for the same rounds list.
C12_SameValue ==
    (OnPage \/ OnPart009) => last.ret = calculateHandicap(rounds, engine)

\* The 20 most recent rounds by date.
Last20(rs) ==
    LET sorted == StableByDate(rs)
    IN  SubSeq(sorted, Len(rs) - 19, Len(rs))

\* C13 as claimed: with 20 or more rounds calculateHandicap returns the index
\* of the 20 most recent rounds; older rounds do not affect it.
C13_Last20 ==
    (OnHandicap /\ Len(rounds) >= 20) =>
        last.ret = calculateHandicap(Last20(rounds), engine)

----------------------------------------------------------------------------
(* The claims about the entry points of the rounds store *)

OnAddRound == http.op = "addRound"
OnPostRounds == http.op = "POST /api/rounds"
OnFetch == http.op = "fetchRounds"

\* A field that is there: a number, or a string that is not empty
Present(x) == x.t = "number" \/ (x.t = "string" /\ x.s # <<>>)

\* The number a field stands for: the JSON number, or the number its text
\* starts with
ValueOf(x) == IF x.t = "number" THEN x.v ELSE ParseFloatOf(x)

\* Every field of the request is there and rating, slope and score stand for
\* numbers
WellFormed(req) ==
    /\ \A f \in DOMAIN req : Present(req[f])
    /\ \A f \in {"rating", "slope", "score"} : ValueOf(req[f]).k = "fin"

\* The round of the request is degenerate: slope 0 or outside 55..155, or a
\* negative score
Degenerate(req) ==
    LET slope == ValueOf(req.slope)
        score == ValueOf(req.score)
    IN  \/ slope.n = 0
        \/ Less(slope, Num(55))
        \/ Less(Num(155), slope)
        \/ score.n < 0

\* The entry point has refused the request for what it holds
Rejected(resp) == ~resp.success /\ resp.error # StoreError

\* The stored row has the values of the request
StoredAs(row, req) ==
    /\ row.player_id = req.player_id.s
    /\ row.date = req.date.s
    /\ row.rating = ValueOf(req.rating)
    /\ row.slope = ValueOf(req.slope)
    /\ row.score = ValueOf(req.score)

\* A fetch has brought every stored round of the player to the engine (the
\* rounds list is empty again once no player is selected)
Fetched ==
    (OnFetch /\ http.resp.status = 200 /\ rounds # <<>>) =>
        LET stored == EqPlayer(db.rounds, http.req)
        IN  /\ Len(rounds) = Len(stored)
            /\ \A i \in 1..Len(stored) :
                  \E j \in 1..Len(rounds) : rounds[j] = AsRound(stored[i])
            /\ OnHandicap /\ last.ret = calculateHandicap(rounds, engine)

\* rating, slope or score of the request is the JSON number 0
ZeroNumber(req) ==
    \E f \in {"rating", "slope", "score"} : req[f] = JNum(Num(0))

AddRoundStep ==
    /\ http'.op \in {"addRound", "POST /api/rounds"}
    /\ http' # http \/ db' # db

\* A field that is missing: not there, or an empty string
Missing(x) == x.t = "undefined" \/ (x.t = "string" /\ x.s = <<>>)

\* The request fails one of the three checks
FailsCheck(req) ==
    \/ Missing(req.player_id)
    \/ \E f \in {"date", "course", "tee", "rating", "slope", "score"} : Missing(req[f])
    \/ IsNaN(ParseFloatOf(req.rating))
    \/ IsNaN(ParseInt(req.slope))
    \/ IsNaN(ParseInt(req.score))

\* C15: addRound and POST /api/rounds answer an error (success false, HTTP
\* 400) and leave the rounds table as it was whenever player_id or one of
\* date, course, tee, rating, slope, score is missing or rating, slope or
\* score does not parse to a number; a step that changes the table has passed
\* the three checks and appends one row.
C15_Checked ==
    [][AddRoundStep =>
          /\ FailsCheck(http'.req) =>
                /\ db' = db
                /\ ~http'.resp.success
                /\ http'.resp.error # StoreError
                /\ http'.op = "POST /api/rounds" => http'.resp.status = 400
          /\ db' # db =>
                /\ ~FailsCheck(http'.req)
                /\ http'.resp.success
                /\ db'.rounds = Append(db.rounds, http'.resp.data)]_vars

\* C15, reached: addRound has refused a rating that is no number, and the
\* table is as it was.
C15_Witness ==
    /\ OnAddRound
    /\ http.req.rating = Str(<<"x">>)
    /\ http.resp.error = "Invalid numeric values"
    /\ db.rounds = SeedRounds

OnGetRounds ==
    http.op \in {"GET /api/rounds", "GET /api/rounds (api/rounds.ts)"}

\* C17 as claimed: GET /api/rounds without a player_id answers an empty array
\* with status 200 and makes no query; with a player_id it answers only
\* rounds of that player, newest date first.
C17_Get ==
    OnGetRounds =>
        /\ ~Present(http.req) =>
              /\ http.resp.status = 200
              /\ http.resp.data = <<>>
              /\ http.resp.queries = 0
        /\ (Present(http.req) /\ http.resp.status = 200) =>
              LET data == http.resp.data
              IN  /\ \A i \in 1..Len(data) : data[i].player_id = http.req.s
                  /\ \A i, j \in 1..Len(data) :
                        i < j => DateTime(ParseDate(data[i].date))
                                    >= DateTime(ParseDate(data[j].date))

----------------------------------------------------------------------------
(* The claims about the entry points of the players store *)

OnAddPlayer == http.op = "addPlayer"
OnPostPlayers == http.op = "POST /api/players"

\* A name that is missing, empty or of white space only
Blank(x) == x.t = "undefined" \/ \A i \in 1..Len(x.s) : x.s[i] \in WhiteSpace

\* t is s without the white space around it
IsTrimOf(t, s) ==
    /\ t # <<>> => (t[1] \notin WhiteSpace /\ t[Len(t)] \notin WhiteSpace)
    /\ \E i, j \in 0..Len(s) :
          /\ i + Len(t) + j = Len(s)
          /\ SubSeq(s, i + 1, i + Len(t)) = t
          /\ \A k \in (1..i) \cup ((Len(s) - j + 1)..Len(s)) : s[k] \in WhiteSpace

\* C16 as claimed: adding a player with a missing, empty or blank name, by
\* addPlayer or by POST /api/players, answers the error "Name is required"
\* without a call of the store; when a player is added, the stored name is
\* the submitted name without the white space around it.
C16_Name ==
    (OnAddPlayer \/ OnPostPlayers) =>
        /\ Blank(http.req.name) =>
              /\ ~http.resp.success
              /\ http.resp.error = "Name is required"
              /\ http.resp.queries = 0
        /\ http.resp.success =>
              /\ db.players[Len(db.players)] = http.resp.data
              /\ IsTrimOf(http.resp.data.name, http.req.name.s)

\* Home has rendered HomeClient for a request
Rendered == home.pc = "rendered"

\* The step in which Home's render of a draft-mode request takes the flag
ReadsFlag == home.pc = "waitForInitialization" /\ home'.pc = "rendered"

\* C18: draft mode gates the feature flag.  A page rendered without draft
\* mode has newCheckoutEnabled false and has not called getFlag; a page
\* rendered in draft mode has called getFlag, the flag is read only once the
\* client of the flag service has initialised, and newCheckoutEnabled is
\* what the service serves for the flag at that moment.
C18_Gate ==
    /\ [](Rendered => IF home.isDraft THEN home.consulted
                      ELSE ~home.consulted /\ home.newCheckoutEnabled = FALSE)
    /\ [][ReadsFlag => /\ home.isDraft
                       /\ ld.state = "initialized"
                       /\ home'.newCheckoutEnabled = ld.flag]_vars

\* A page rendered in draft mode, for the first player, with the flag on
C18_Witness ==
    Rendered /\ home.isDraft /\ home.newCheckoutEnabled /\ home.players # <<>>

\* A step in which the form's handleSubmit starts a call of onAddRound
StartsCall == form'.calls = form.calls + 1

Resolves(outcome) ==
    /\ form.mounted /\ form'.mounted
    /\ form'.inFlight = form.inFlight - 1
    /\ form'.outcome = outcome

\* A step in which handleSubmit handles a submit event
HandlesSubmit == form'.submits = form.submits + 1

\* C20: AddRoundForm resets its fields and collapses only on a successful
\* submission.  When onAddRound resolves with success false the fields and
\* the expanded state stay as they are, when it resolves with success true
\* the fields are emptied and the form collapses, and either way loading
\* ends false; a submit event handled with no player selected starts no
\* call of onAddRound and changes nothing of the form's state.
C20_Reset ==
    [][/\ Resolves("failure") =>
            /\ form'.formData = form.formData
            /\ form'.isExpanded = form.isExpanded
            /\ form'.loading = FALSE
       /\ Resolves("success") =>
            /\ form'.formData = EmptyFormData
            /\ form'.isExpanded = FALSE
            /\ form'.loading = FALSE
       /\ (HandlesSubmit /\ ~Truthy(form.playerId)) =>
            form' = [form EXCEPT !.submits = @ + 1]]_vars

\* A submission has failed, the fields and the expanded form are as they
\* were entered, and a submit event was then handled with no player selected
C20_Witness ==
    /\ form.outcome = "failure" /\ form.inFlight = 0 /\ ~form.loading
    /\ form.isExpanded /\ form.formData = Entered
    /\ ~Truthy(form.playerId) /\ form.submits = 2 /\ form.calls = 1

\* Profile has rendered its trend chart, and what the chart shows
OnChart == last.op = "HandicapChart"
EmptyState == last.ret.shows = "Need at least 3 rounds to display handicap trend"

\* No round of the list is dated at or after the instant 6 calendar months
\* before the render
NoneRecent ==
    \A i \in 1..Len(rounds) : DateTime(rounds[i].date) < SetMonthBack6(last.at)

AddPlayerReturns == Len(homeClient'.pending) = Len(homeClient.pending) - 1

\* C22: in HomeClient a successful add-player appends the created player to
\* the players list and makes it the selected player; a failed one leaves
\* the players list, the selected player and the rounds list as they were.
C22_AddPlayer ==
    [][AddPlayerReturns =>
          IF homeClient'.returned.success
          THEN /\ homeClient'.players =
                      Append(homeClient.players, homeClient'.returned.data)
               /\ homeClient'.selectedPlayerId = IdOf(homeClient'.returned.data)
               /\ homeClient'.returned.data \in {db.players[k] : k \in 1..Len(db.players)}
          ELSE /\ homeClient'.players = homeClient.players
               /\ homeClient'.selectedPlayerId = homeClient.selectedPlayerId
               /\ rounds' = rounds]_vars

\* A player was added and selected beside the first one, whose rounds are
\* still shown, and an add-player then failed
C22_Witness ==
    /\ Len(homeClient.players) = 2
    /\ homeClient.selectedPlayerId = IdOf(homeClient.players[2])
    /\ ~homeClient.returned.success /\ homeClient.returned.error = "Name is required"
    /\ rounds # <<>>

====
